---- MODULE Spec2Model ----
(***************************************************************************)
(* Model of bot.py: a Flask webhook that hands Telegram updates to the     *)
(* python-telegram-bot handlers, the sliding-window rate limiter, and the  *)
(* download_video pipeline (probe, download, find file, classify, send,    *)
(* clean up).  Every webhook call runs on its own Flask thread; a thread's *)
(* position is pc[t], named after the source line it is about to execute.  *)
(***************************************************************************)
EXTENDS Integers, Sequences, FiniteSets, TLC

\* ------------------------------------------------------------------ bounds
MaxTime == 120          \* the clock stops advancing here (sequential specifications)
MaxRaceTime == 60       \* the clock stops advancing here (concurrent specifications)
MaxUpdates == 4         \* webhook calls in one behaviour of the concurrent specifications
MaxSeqUpdates == 4      \* webhook calls in one behaviour of the sequential specification
MaxDeliveries == 2      \* webhook calls in one behaviour of the delivery specification
MaxBridgeCalls == 2     \* webhook calls in one behaviour of the bridge specification
MaxWindowCalls == 5     \* webhook calls in one behaviour of the window specification
MaxDownloads == 2       \* webhook calls in one behaviour of the download specification
MaxFrameCalls == 5      \* webhook calls in one behaviour of the two-requester specification
MaxGateCalls == 5       \* webhook calls in one behaviour of the admission specification
MaxProgressCalls == 2   \* webhook calls in one behaviour of the progress specification
MaxHooks == 2           \* progress callbacks of the engine during one download
MaxProgressTime == 6   \* the clock stops advancing here (progress specification)

\* ------------------------------------------------------- program constants
MAX_REQUESTS_PER_MINUTE == 3
WINDOW_SECONDS == 60
VIDEO_LIMIT == 50 * 1024 * 1024
TITLE_LIMIT == 100
ID_LENGTH == 11
PROGRESS_INTERVAL == 5

\* The first event loop of the process: main's asyncio.run(setup_bot()).
StartupLoop == 1

Threads == {"t1", "t2"}
Users == {1, 2}
TickSteps == {30, 59, 60}
HookTickSteps == {3, 6}

\* time.time() counts from 1970; the model's clock `now` counts from the
\* start of the process, Epoch seconds later.
Epoch == 1000
None == "None"
DOWNLOAD_DIR == "downloads"

\* ------------------------------------------------------------ pure helpers
Count(s, x) == Cardinality({i \in 1..Len(s) : s[i] = x})

\* "sub in s" of Python for strings held as sequences of characters.
Contains(s, sub) ==
    \E i \in 0..(Len(s) - Len(sub)) : SubSeq(s, i + 1, i + Len(sub)) = sub

StartsWith(s, p) == Len(p) <= Len(s) /\ SubSeq(s, 1, Len(p)) = p

\* is_rate_limited, line 52-55: the list comprehension that keeps the
\* timestamps younger than one minute.
PruneStrict(reqs, t) == SelectSeq(reqs, LAMBDA x : t - x <= WINDOW_SECONDS)
Prune(reqs, t) == SelectSeq(reqs, LAMBDA x : t - x < WINDOW_SECONDS)

\* is_rate_limited, line 58: the quota test on the pruned list.
OverQuotaLoose(reqs) == Len(reqs) > MAX_REQUESTS_PER_MINUTE
OverQuota(reqs) == Len(reqs) >= MAX_REQUESTS_PER_MINUTE

\* str(user_id), line 46.
UserKey(user_id) == ToString(user_id)

\* ---------------------------------------------------------- texts and URLs
\* Strings are sequences of one-character strings.
Str_watch == <<"w", "a", "t", "c", "h", "?", "v", "=">>
Str_embed == <<"e", "m", "b", "e", "d", "/">>
Str_v == <<"v", "/">>
Str_qv == <<"?", "v", "=">>
Str_id1 == <<"d", "Q", "w", "4", "w", "9", "W", "g", "X", "c", "Q">>

\* A message text: what stands before the host, the host, and what follows
\* "host/".  Anything else is plain text (host "").
TextWatch == [scheme |-> "https://", www |-> "www.", host |-> "youtube.com",
              rest |-> Str_watch \o Str_id1]
TextShort == [scheme |-> "https://", www |-> "", host |-> "youtu.be",
              rest |-> Str_id1]
TextPlain == [scheme |-> "", www |-> "", host |-> "", rest |-> <<"h", "i">>]
Texts == {TextWatch, TextShort, TextPlain}

\* [^&=%\?]{11} matched at the head of s.
IdAtHead(s) ==
    /\ Len(s) >= ID_LENGTH
    /\ \A i \in 1..ID_LENGTH : s[i] \notin {"&", "=", "%", "?"}

\* The optional group (watch\?v=|embed/|v/|.+\?v=)? followed by the id.
RestMatches(s) ==
    \/ IdAtHead(s)
    \/ \E p \in {Str_watch, Str_embed, Str_v} :
          StartsWith(s, p) /\ IdAtHead(SubSeq(s, Len(p) + 1, Len(s)))
    \/ \E i \in 1..Len(s) :
          /\ StartsWith(SubSeq(s, i + 1, Len(s)), Str_qv)
          /\ IdAtHead(SubSeq(s, i + 4, Len(s)))

\* A classifier that takes every text for a supported URL.
is_any_text(text) == TRUE

\* is_youtube_url, line 64-67 (re.match anchors at the start only).
is_youtube_url(text) ==
    /\ text.scheme \in {"", "http://", "https://"}
    /\ text.www \in {"", "www."}
    /\ text.host \in {"youtube.com", "youtu.be"}
    /\ RestMatches(text.rest)

\* ------------------------------------------------------- files and formats
BadChars == {"<", ">", ":", "\"", "/", "\\", "|", "?", "*"}

\* sanitize_filename, line 73-75.
sanitize_filename(filename) ==
    LET kept == SelectSeq(filename, LAMBDA c : c \notin BadChars)
    IN  SubSeq(kept, 1, IF Len(kept) < TITLE_LIMIT THEN Len(kept) ELSE TITLE_LIMIT)

Lower(c) == CASE c = "M" -> "m" [] c = "P" -> "p" [] c = "A" -> "a" [] OTHER -> c

\* get_file_extension, line 83-85: os.path.splitext(...)[1].lower().
get_file_extension(name) ==
    LET dots == {i \in 1..Len(name) : name[i] = "."}
        last == CHOOSE i \in dots : \A j \in dots : j <= i
    IN  IF dots = {} \/ (\A j \in 1..(last - 1) : name[j] = ".")
        THEN <<>>
        ELSE [i \in 1..(Len(name) - last + 1) |-> Lower(name[last + i - 1])]

Ext_mp4 == <<"m", "p", "4">>
Ext_mp3 == <<"m", "p", "3">>
Ext_m4a == <<"m", "4", "a">>
Ext_webm == <<"w", "e", "b", "m">>
Ext_part == <<"p", "a", "r", "t">>
DotExt(e) == <<".">> \o e

\* The outtmpl of line 210, filled in by the engine: <safe_title>_<id>.<ext>
OutputName(safe_title, id, ext) == safe_title \o <<"_">> \o id \o DotExt(ext)

Formats == {"best", "audio", "720", "1080"}

\* What the engine can write for a format choice (lines 215-251): the audio
\* post-processor converts to mp3; 'best[ext=mp4]/best' may fall back to any
\* container; the height-limited choices ask for mp4.
ExtsOf(format_choice) ==
    CASE format_choice = "audio" -> {Ext_mp3}
      [] format_choice \in {"720", "1080"} -> {Ext_mp4}
      [] OTHER -> {Ext_mp4, Ext_webm, Ext_m4a}

Sizes == {1, VIDEO_LIMIT - 1, VIDEO_LIMIT, VIDEO_LIMIT + 1}

\* Lines 282-303: which reply_* call delivers the file.
DeliveryChannelInclusive(format_choice, name, file_size) ==
    IF format_choice = "audio"
       \/ get_file_extension(name) \in {DotExt(Ext_mp3), DotExt(Ext_m4a)}
    THEN "audio"
    ELSE IF file_size <= VIDEO_LIMIT THEN "video" ELSE "document"
DeliveryChannel(format_choice, name, file_size) ==
    IF format_choice = "audio"
       \/ get_file_extension(name) \in {DotExt(Ext_mp3), DotExt(Ext_m4a)}
    THEN "audio"
    ELSE IF file_size < VIDEO_LIMIT THEN "video" ELSE "document"

\* What the engine reports for a URL (extract_info, line 197).
Videos == { [title |-> <<"a">>, id |-> <<"x">>, duration |-> 120],
            [title |-> <<"a", "?">>, id |-> <<"y">>, duration |-> 4000] }

\* ------------------------------------------------------------------ state
VARIABLES
    now,            \* time.time(), whole seconds
    bot_app,        \* the global of line 41: None until setup_bot assigns it
    serving,        \* the Flask app answers requests
    loops,          \* every event loop asyncio.run created, "running" or "closed"
    user_requests,  \* the dict of line 34: str(user id) -> list of timestamps
    disk,           \* the files of DOWNLOAD_DIR: records name, mtime, size, by
    pc,             \* per webhook thread: the line it is about to execute
    loc,            \* per webhook thread: the locals of the call it runs
    nreq,           \* webhook calls received so far
    hist,           \* per webhook thread: what its call did so far (observation)
    calls           \* every is_rate_limited call that returned (observation)

vars == <<now, bot_app, serving, loops, user_requests, disk, pc, loc, nreq,
          hist, calls>>

\* An inbound update: a text message, a /command, or a press on a format
\* button (data "format:<fmt>:<id>", text = the message the buttons reply to).
TextUpdates(users, texts) ==
    [kind : {"text"}, chat : users, text : texts, fmt : {"-"}]
CallbackUpdates(users, texts, fmts) ==
    [kind : {"callback"}, chat : users, text : texts, fmt : fmts]
CommandUpdates(users) ==
    [kind : {"command"}, chat : users, text : {TextPlain}, fmt : {"-"}]

NoVideo == [title |-> <<>>, id |-> <<>>, duration |-> 0]

\* The locals of a webhook call.  status_msg is the message behind the local
\* of line 190: "none", "sent" or "deleted"; last_update is the field of the
\* DownloadProgress object (line 149); queue holds the update_status
\* coroutines handed to the event loop and not started yet (lines 160, 167);
\* flight holds the edit_text calls that are awaited and not yet answered,
\* as indexes into hist[t].edits.
Blank == [req |-> 0, chat |-> 0, text |-> TextPlain, kind |-> "-",
          format_choice |-> "-", rl_now |-> 0, rl_tmp |-> <<>>,
          info |-> NoVideo, safe_title |-> <<>>, downloaded_files |-> {},
          filepath |-> <<>>, file_size |-> 0,
          status_msg |-> "none", last_update |-> 0, queue |-> <<>>,
          flight |-> {}]

NoHist ==
    [started |-> 0, status |-> 0, appNone |-> FALSE, loop |-> 0,
     limited |-> "-", duration |-> 0, probes |-> 0, downloads |-> 0,
     dir |-> "-", wrote |-> {}, channel |-> "-", outcome |-> "-",
     edits |-> <<>>, applied |-> <<>>, emitted |-> <<>>, hooks |-> 0]

Init ==
    /\ now = 0
    /\ bot_app = None
    /\ serving = FALSE
    /\ loops = <<>>
    /\ user_requests = <<>>
    /\ disk = {}
    /\ pc = [t \in Threads |-> "idle"]
    /\ loc = [t \in Threads |-> Blank]
    /\ nreq = 0
    /\ hist = [t \in Threads |-> NoHist]
    /\ calls = <<>>

\* -------------------------------------------------------------- shorthands
Req(t) == loc[t].req
Key(t) == UserKey(loc[t].chat)
Goto(t, p) == pc' = [pc EXCEPT ![t] = p]
HasKey(k) == k \in DOMAIN user_requests
PutKey(k, v) == [x \in DOMAIN user_requests \cup {k} |->
                     IF x = k THEN v ELSE user_requests[x]]
Names(files) == {f.name : f \in files}
FileNamed(n) == CHOOSE f \in disk : f.name = n
Active(t) == pc[t] \notin {"idle", "done"}

\* status_msg.edit_text(text) is called by the handler itself ("main") or by
\* an update_status coroutine ("hook"): the call goes on the wire and is
\* logged with the state the message is in.
Issued(h, l, text, who) ==
    [h EXCEPT !.edits = Append(@, [text |-> text, by |-> who,
                                   gone |-> (l.status_msg = "deleted")])]
OnWire(h, l) == [l EXCEPT !.flight = @ \cup {Len(h.edits) + 1}]

\* The handler awaits an edit_text call of its own.
MainInFlight(t) == \E i \in loc[t].flight : hist[t].edits[i].by = "main"

\* The handler runs again after an await once its call has been answered;
\* the event loop has started every coroutine that was queued before then.
Resumed(t) == ~MainInFlight(t) /\ loc[t].queue = <<>>

\* ydl.download (line 255) is running: the edit of lines 216-245 has been
\* answered and the engine has not returned yet.
Downloading(t) == pc[t] = "dv255" /\ ~MainInFlight(t)

\* The thread waits for the engine's probe (line 197), the engine's download
\* (line 255) or the upload of the file (lines 284-303).
Suspended(t) == pc[t] \in {"dv197", "dv255", "dv279"}

\* --------------------------------------------------------------- start-up
\* main, line 455-466: asyncio.run(setup_bot()) builds the Application on an
\* event loop of its own, which asyncio.run closes when setup_bot returns.
MainSetup ==
    /\ ~serving /\ bot_app = None
    /\ bot_app' = "app"
    /\ loops' = Append(loops, "closed")
    /\ UNCHANGED <<now, serving, user_requests, disk, pc, loc, nreq, hist, calls>>

\* main, line 473-475: app.run.
MainRun ==
    /\ ~serving /\ bot_app # None
    /\ serving' = TRUE
    /\ UNCHANGED <<now, bot_app, loops, user_requests, disk, pc, loc, nreq,
                   hist, calls>>

\* Line 38, 410 and 477: `app` and its routes exist once the module is
\* imported, and main runs only under __main__; a WSGI host that imports
\* the module serves `app` with bot_app still None.
ImportServe ==
    /\ ~serving /\ bot_app = None
    /\ serving' = TRUE
    /\ UNCHANGED <<now, bot_app, loops, user_requests, disk, pc, loc, nreq,
                   hist, calls>>

\* The clock.
Tick(limit) ==
    \E d \in TickSteps :
        /\ now + d <= limit
        /\ now' = now + d
        /\ UNCHANGED <<bot_app, serving, loops, user_requests, disk, pc, loc,
                       nreq, hist, calls>>

\* ---------------------------------------------------------------- webhook
\* webhook, line 411-413: Flask starts a thread for the POST.
WebhookEnter(t, u, max) ==
    /\ serving /\ pc[t] = "idle" /\ nreq < max
    /\ nreq' = nreq + 1
    /\ loc' = [loc EXCEPT ![t] = [Blank EXCEPT !.req = nreq + 1,
                                   !.chat = u.chat, !.text = u.text,
                                   !.kind = u.kind, !.format_choice = u.fmt]]
    /\ hist' = [hist EXCEPT ![t] = [NoHist EXCEPT !.started = now,
                                     !.appNone = (bot_app = None)]]
    /\ Goto(t, "wh414")
    /\ UNCHANGED <<now, bot_app, serving, loops, user_requests, disk, calls>>

\* Line 414: Update.de_json(..., bot_app.bot).  With bot_app None the
\* attribute access raises AttributeError, which Flask answers with 500.
Wh414(t) ==
    /\ pc[t] = "wh414"
    /\ IF bot_app = None
       THEN /\ hist' = [hist EXCEPT ![t].status = 500, ![t].outcome = "Crashed"]
            /\ Goto(t, "done")
       ELSE /\ Goto(t, "wh415")
            /\ UNCHANGED hist
    /\ UNCHANGED <<now, bot_app, serving, loops, user_requests, disk, loc, nreq,
                   calls>>

\* Line 415: asyncio.run creates a new event loop for this call and runs
\* process_update on it, which dispatches to the handler registered for the
\* update (lines 440-444).
Wh415(t) ==
    /\ pc[t] = "wh415"
    /\ loops' = Append(loops, "running")
    /\ hist' = [hist EXCEPT ![t].loop = Len(loops) + 1]
    /\ Goto(t, CASE loc[t].kind = "text" -> "hm324"
                 [] loc[t].kind = "callback" -> "fs132"
                 [] OTHER -> "cmd")
    /\ UNCHANGED <<now, bot_app, serving, user_requests, disk, loc, nreq, calls>>

\* Line 415-416: process_update returned, asyncio.run closes its loop, and
\* the view returns "OK", 200.
Wh416(t) ==
    /\ pc[t] = "wh416" /\ Resumed(t)
    /\ loops' = [loops EXCEPT ![hist[t].loop] = "closed"]
    /\ hist' = [hist EXCEPT ![t].status = 200]
    /\ Goto(t, "done")
    /\ UNCHANGED <<now, bot_app, serving, user_requests, disk, loc, nreq, calls>>

\* The response is out and the request thread ends.
ThreadExit(t) ==
    /\ pc[t] = "done"
    /\ Goto(t, "idle")
    /\ loc' = [loc EXCEPT ![t] = Blank]
    /\ hist' = [hist EXCEPT ![t] = NoHist]
    /\ UNCHANGED <<now, bot_app, serving, loops, user_requests, disk, nreq, calls>>

\* ---------------------------------------------------------------- handlers
\* start, help_command, stats_command (lines 87-103, 333-366): one reply.
Command(t) ==
    /\ pc[t] = "cmd"
    /\ hist' = [hist EXCEPT ![t].outcome = "Replied"]
    /\ Goto(t, "wh416")
    /\ UNCHANGED <<now, bot_app, serving, loops, user_requests, disk, loc, nreq,
                   calls>>

\* handle_message, line 320-331.
Hm324(t) ==
    /\ pc[t] = "hm324"
    /\ IF is_youtube_url(loc[t].text)
       THEN /\ loc' = [loc EXCEPT ![t].format_choice = "ask"]
            /\ Goto(t, "rl45")
            /\ UNCHANGED hist
       ELSE /\ hist' = [hist EXCEPT ![t].outcome = "Hint"]
            /\ Goto(t, "wh416")
            /\ UNCHANGED loc
    /\ UNCHANGED <<now, bot_app, serving, loops, user_requests, disk, nreq, calls>>

\* handle_format_selection, line 129-142: the URL is the text of the message
\* the buttons reply to, the format is the second field of the button data.
Fs132(t) ==
    /\ pc[t] = "fs132"
    /\ Goto(t, "rl45")
    /\ UNCHANGED <<now, bot_app, serving, loops, user_requests, disk, loc, nreq,
                   hist, calls>>

\* ---------------------------------------------------------- is_rate_limited
\* download_video calls is_rate_limited(chat_id) at line 185.  The function
\* takes no lock, so another thread may run between any two of its steps.

\* Line 45: now = time.time().
Rl45(t) ==
    /\ pc[t] = "rl45"
    /\ loc' = [loc EXCEPT ![t].rl_now = now]
    /\ Goto(t, "rl48")
    /\ UNCHANGED <<now, bot_app, serving, loops, user_requests, disk, nreq, hist,
                   calls>>

\* Line 48: the membership test.
Rl48(t) ==
    /\ pc[t] = "rl48"
    /\ Goto(t, IF HasKey(Key(t)) THEN "rl52" ELSE "rl49")
    /\ UNCHANGED <<now, bot_app, serving, loops, user_requests, disk, loc, nreq,
                   hist, calls>>

\* Line 49: user_requests[user_id_str] = [].
Rl49(t) ==
    /\ pc[t] = "rl49"
    /\ user_requests' = PutKey(Key(t), <<>>)
    /\ Goto(t, "rl52")
    /\ UNCHANGED <<now, bot_app, serving, loops, disk, loc, nreq, hist, calls>>

\* Line 52-55, right-hand side: the comprehension reads the stored list.
Rl52(t) ==
    /\ pc[t] = "rl52"
    /\ loc' = [loc EXCEPT ![t].rl_tmp = Prune(user_requests[Key(t)], loc[t].rl_now)]
    /\ Goto(t, "rl52w")
    /\ UNCHANGED <<now, bot_app, serving, loops, user_requests, disk, nreq, hist,
                   calls>>

\* Line 52, the assignment: the new list replaces the stored one.
Rl52w(t) ==
    /\ pc[t] = "rl52w"
    /\ user_requests' = PutKey(Key(t), loc[t].rl_tmp)
    /\ loc' = [loc EXCEPT ![t].rl_tmp = <<>>]
    /\ Goto(t, "rl58")
    /\ UNCHANGED <<now, bot_app, serving, loops, disk, nreq, hist, calls>>

\* Line 58-59 as it would be if the rejected call were recorded too.
Rl58Recording(t) ==
    /\ pc[t] = "rl58"
    /\ IF OverQuota(user_requests[Key(t)])
       THEN /\ user_requests' =
                   PutKey(Key(t), Append(user_requests[Key(t)], loc[t].rl_now))
            /\ calls' = Append(calls, [key |-> Key(t), at |-> loc[t].rl_now,
                                       limited |-> TRUE,
                                       format_choice |-> loc[t].format_choice])
            /\ hist' = [hist EXCEPT ![t].limited = "yes"]
            /\ Goto(t, "dv186")
       ELSE /\ Goto(t, "rl61")
            /\ UNCHANGED <<calls, hist, user_requests>>
    /\ UNCHANGED <<now, bot_app, serving, loops, disk, loc, nreq>>

\* Line 58-59: over the quota, return True.
Rl58(t) ==
    /\ pc[t] = "rl58"
    /\ IF OverQuota(user_requests[Key(t)])
       THEN /\ calls' = Append(calls, [key |-> Key(t), at |-> loc[t].rl_now,
                                       limited |-> TRUE,
                                       format_choice |-> loc[t].format_choice])
            /\ hist' = [hist EXCEPT ![t].limited = "yes"]
            /\ Goto(t, "dv186")
       ELSE /\ Goto(t, "rl61")
            /\ UNCHANGED <<calls, hist>>
    /\ UNCHANGED <<now, bot_app, serving, loops, user_requests, disk, loc, nreq>>

\* Line 61-62: record the timestamp, return False.
Rl61(t) ==
    /\ pc[t] = "rl61"
    /\ user_requests' = PutKey(Key(t), Append(user_requests[Key(t)], loc[t].rl_now))
    /\ calls' = Append(calls, [key |-> Key(t), at |-> loc[t].rl_now,
                               limited |-> FALSE,
                               format_choice |-> loc[t].format_choice])
    /\ hist' = [hist EXCEPT ![t].limited = "no"]
    /\ Goto(t, "dv190")
    /\ UNCHANGED <<now, bot_app, serving, loops, disk, loc, nreq>>

\* ----------------------------------------------------------- download_video
\* Line 185-187: rate limited, one reply and return.
Dv186(t) ==
    /\ pc[t] = "dv186"
    /\ hist' = [hist EXCEPT ![t].outcome = "RateLimited"]
    /\ Goto(t, "wh416")
    /\ UNCHANGED <<now, bot_app, serving, loops, user_requests, disk, loc, nreq,
                   calls>>

\* Line 190: the status message is sent.
Dv190(t) ==
    /\ pc[t] = "dv190"
    /\ loc' = [loc EXCEPT ![t].status_msg = "sent"]
    /\ Goto(t, "dv197")
    /\ UNCHANGED <<now, bot_app, serving, loops, user_requests, disk, nreq,
                   hist, calls>>

\* Line 196-200: the probe.  It returns the video's info or raises
\* DownloadError; the duration it reports is stored and never read again.
Dv197(t, videos) ==
    /\ pc[t] = "dv197"
    /\ \/ \E v \in videos :
            /\ loc' = [loc EXCEPT ![t].info = v]
            /\ hist' = [hist EXCEPT ![t].probes = @ + 1,
                                    ![t].duration = v.duration]
            /\ Goto(t, "dv203")
       \/ /\ hist' = [hist EXCEPT ![t].probes = @ + 1]
          /\ Goto(t, "dv311")
          /\ UNCHANGED loc
    /\ UNCHANGED <<now, bot_app, serving, loops, user_requests, disk, nreq, calls>>

\* Line 203-204: "ask" deletes the status message.
Dv203(t) ==
    /\ pc[t] = "dv203"
    /\ IF loc[t].format_choice = "ask"
       THEN /\ loc' = [loc EXCEPT ![t].status_msg = "deleted"]
            /\ Goto(t, "dv205")
       ELSE /\ Goto(t, "dv209")
            /\ UNCHANGED loc
    /\ UNCHANGED <<now, bot_app, serving, loops, user_requests, disk, nreq,
                   hist, calls>>

\* Line 205-206: show_format_options sends the buttons, and the call returns.
Dv205(t) ==
    /\ pc[t] = "dv205"
    /\ hist' = [hist EXCEPT ![t].outcome = "Asked"]
    /\ Goto(t, "wh416")
    /\ UNCHANGED <<now, bot_app, serving, loops, user_requests, disk, loc, nreq,
                   calls>>

\* Line 205: show_format_options raises (a key missing from info at line
\* 109-123, the send of line 127 failing); the try of line 192 catches it.
Dv205Raise(t) ==
    /\ pc[t] = "dv205"
    /\ Goto(t, "dv314")
    /\ UNCHANGED <<now, bot_app, serving, loops, user_requests, disk, loc, nreq,
                   hist, calls>>

\* Line 208-251: the output template under DOWNLOAD_DIR, the engine options
\* for the format, and the "Downloading ..." edit.
ScratchDirOf(req) == DOWNLOAD_DIR

Dv209(t) ==
    /\ pc[t] = "dv209"
    /\ loc' = [loc EXCEPT ![t] =
                 OnWire(hist[t], [@ EXCEPT !.safe_title =
                                      sanitize_filename(loc[t].info.title),
                                  !.last_update = 0])]
    /\ hist' = [hist EXCEPT ![t] =
                  Issued([@ EXCEPT !.dir = ScratchDirOf(Req(t))], loc[t],
                         "Downloading", "main")]
    /\ Goto(t, "dv255")
    /\ UNCHANGED <<now, bot_app, serving, loops, user_requests, disk, nreq, calls>>

\* A file written by request r: a rewrite keeps the earlier writers in `by`.
Written(name, size, r) ==
    LET old == {f \in disk : f.name = name}
    IN  (disk \ old) \cup
        {[name |-> name, mtime |-> now, size |-> size,
          by |-> {r} \cup UNION {f.by : f \in old}]}

\* Line 253-255: the engine downloads into the template.  It leaves the
\* finished file, or raises DownloadError with or without a .part file left.
Dv255(t, sizes) ==
    /\ Downloading(t)
    /\ LET base(e) == OutputName(loc[t].safe_title, loc[t].info.id, e)
       IN  \/ \E e \in ExtsOf(loc[t].format_choice), s \in sizes :
                /\ disk' = Written(base(e), s, Req(t))
                /\ hist' = [hist EXCEPT ![t].downloads = @ + 1,
                                        ![t].wrote = @ \cup {base(e)}]
                /\ Goto(t, "dv258")
           \/ \E e \in ExtsOf(loc[t].format_choice) :
                /\ disk' = Written(base(e) \o DotExt(Ext_part), 1, Req(t))
                /\ hist' = [hist EXCEPT ![t].downloads = @ + 1,
                              ![t].wrote = @ \cup {base(e) \o DotExt(Ext_part)}]
                /\ Goto(t, "dv311")
           \/ /\ hist' = [hist EXCEPT ![t].downloads = @ + 1]
              /\ Goto(t, "dv311")
              /\ UNCHANGED disk
    /\ UNCHANGED <<now, bot_app, serving, loops, user_requests, loc, nreq, calls>>

\* Line 257-261: every name in DOWNLOAD_DIR that contains the title or the id.
Matching(safe_title, id) ==
    {f.name : f \in {g \in disk : Contains(g.name, safe_title) \/ Contains(g.name, id)}}

\* Line 257-265: list the directory; nothing found ends the request.
Dv258(t) ==
    /\ pc[t] = "dv258"
    /\ LET found == Matching(loc[t].safe_title, loc[t].info.id)
       IN  IF found = {}
           THEN /\ hist' = [hist EXCEPT ![t] =
                            Issued([@ EXCEPT !.outcome = "ArtifactNotFound"],
                                   loc[t], "Download failed", "main")]
                /\ loc' = [loc EXCEPT ![t] = OnWire(hist[t], @)]
                /\ Goto(t, "wh416")
           ELSE /\ loc' = [loc EXCEPT ![t].downloaded_files = found]
                /\ Goto(t, "dv268")
                /\ UNCHANGED hist
    /\ UNCHANGED <<now, bot_app, serving, loops, user_requests, disk, nreq, calls>>

\* Line 267-274: the most recently modified candidate and its size; a
\* candidate that is gone by now makes getmtime raise.
Dv268(t) ==
    /\ pc[t] = "dv268"
    /\ IF loc[t].downloaded_files \subseteq Names(disk)
       THEN \E n \in loc[t].downloaded_files :
                /\ \A m \in loc[t].downloaded_files :
                       FileNamed(m).mtime <= FileNamed(n).mtime
                /\ loc' = [loc EXCEPT ![t].filepath = n,
                                      ![t].file_size = FileNamed(n).size]
                /\ Goto(t, "dv276")
       ELSE /\ Goto(t, "dv314")
            /\ UNCHANGED loc
    /\ UNCHANGED <<now, bot_app, serving, loops, user_requests, disk, nreq, hist,
                   calls>>

\* Line 276: the "Uploading..." edit.
Dv276(t) ==
    /\ pc[t] = "dv276"
    /\ hist' = [hist EXCEPT ![t] = Issued(@, loc[t], "Uploading", "main")]
    /\ loc' = [loc EXCEPT ![t] = OnWire(hist[t], @)]
    /\ Goto(t, "dv279")
    /\ UNCHANGED <<now, bot_app, serving, loops, user_requests, disk, nreq,
                   calls>>

\* Line 278-303: open the file and send it on the channel its kind and size
\* select; open raises when the file is gone, the platform may reject the send.
Dv279(t) ==
    /\ pc[t] = "dv279" /\ Resumed(t)
    /\ \/ /\ loc[t].filepath \in Names(disk)
          /\ hist' = [hist EXCEPT
                ![t].channel = DeliveryChannel(loc[t].format_choice,
                                    loc[t].filepath, loc[t].file_size)]
          /\ Goto(t, "dv306")
       \/ /\ Goto(t, "dv314")
          /\ UNCHANGED hist
    /\ UNCHANGED <<now, bot_app, serving, loops, user_requests, disk, loc, nreq,
                   calls>>

\* Line 305-306: the status message is deleted.
Dv306(t) ==
    /\ pc[t] = "dv306"
    /\ loc' = [loc EXCEPT ![t].status_msg = "deleted"]
    /\ Goto(t, "dv309")
    /\ UNCHANGED <<now, bot_app, serving, loops, user_requests, disk, nreq,
                   hist, calls>>

\* Line 308-309: os.remove(filepath), which raises when the file is gone.
Dv309(t) ==
    /\ pc[t] = "dv309"
    /\ IF loc[t].filepath \in Names(disk)
       THEN /\ disk' = {f \in disk : f.name # loc[t].filepath}
            /\ hist' = [hist EXCEPT ![t].outcome = "Delivered"]
            /\ Goto(t, "wh416")
       ELSE /\ Goto(t, "dv314")
            /\ UNCHANGED <<disk, hist>>
    /\ UNCHANGED <<now, bot_app, serving, loops, user_requests, loc, nreq, calls>>

\* Line 311-313: except DownloadError, one edit of the status message.
Dv311(t) ==
    /\ pc[t] = "dv311"
    /\ hist' = [hist EXCEPT ![t] =
                  Issued([@ EXCEPT !.outcome = "DownloadFailed"], loc[t],
                         "Download failed, too long or unavailable", "main")]
    /\ loc' = [loc EXCEPT ![t] = OnWire(hist[t], @)]
    /\ Goto(t, "wh416")
    /\ UNCHANGED <<now, bot_app, serving, loops, user_requests, disk, nreq,
                   calls>>

\* Line 314-318: except Exception, one edit of the status message.
Dv314(t) ==
    /\ pc[t] = "dv314"
    /\ hist' = [hist EXCEPT ![t] =
                  Issued([@ EXCEPT !.outcome = "Error"], loc[t], "Error", "main")]
    /\ loc' = [loc EXCEPT ![t] = OnWire(hist[t], @)]
    /\ Goto(t, "wh416")
    /\ UNCHANGED <<now, bot_app, serving, loops, user_requests, disk, nreq,
                   calls>>

\* progress_hook, line 151-170: the engine calls it from inside ydl.download
\* (line 255), on the thread of the event loop, which is therefore busy.
\* run_coroutine_threadsafe only queues the coroutine on that loop.
progress_hook(t, statuses, max) ==
    /\ Downloading(t)
    /\ hist[t].hooks < max
    /\ \E status \in statuses :
          IF status = "downloading"
          THEN IF (Epoch + now) - loc[t].last_update > PROGRESS_INTERVAL
               THEN /\ loc' = [loc EXCEPT
                             ![t].queue = Append(@, "Downloading percent"),
                             ![t].last_update = Epoch + now]
                    /\ hist' = [hist EXCEPT ![t].hooks = @ + 1,
                                            ![t].emitted = Append(@, now)]
               ELSE /\ hist' = [hist EXCEPT ![t].hooks = @ + 1]
                    /\ UNCHANGED loc
          ELSE /\ loc' = [loc EXCEPT ![t].queue = Append(@, "Processing file")]
               /\ hist' = [hist EXCEPT ![t].hooks = @ + 1,
                                       ![t].emitted = Append(@, now)]
    /\ UNCHANGED <<now, bot_app, serving, loops, user_requests, disk, pc, nreq,
                   calls>>

\* update_status, line 172-177: the event loop starts a queued coroutine
\* once the handler has given up the loop at an await; the coroutine calls
\* edit_text on the status message and swallows what the call raises.
update_status(t) ==
    /\ Active(t) /\ MainInFlight(t)
    /\ loc[t].queue # <<>>
    /\ hist' = [hist EXCEPT ![t] = Issued(@, loc[t], Head(loc[t].queue), "hook")]
    /\ loc' = [loc EXCEPT ![t] = OnWire(hist[t], [@ EXCEPT !.queue = Tail(@)])]
    /\ UNCHANGED <<now, bot_app, serving, loops, user_requests, disk, pc, nreq,
                   calls>>

\* The platform answers one of the edit_text calls on the wire: the edit is
\* applied to the status message (or refused when the message is gone), and
\* the coroutine that awaits it goes on.  Calls that are on the wire at the
\* same time are answered in any order.
EditApply(t) ==
    /\ Active(t)
    /\ \E i \in loc[t].flight :
          /\ loc' = [loc EXCEPT ![t].flight = @ \ {i}]
          /\ hist' = [hist EXCEPT ![t].applied = Append(@, i)]
    /\ UNCHANGED <<now, bot_app, serving, loops, user_requests, disk, pc, nreq,
                   calls>>

\* ---------------------------------------------------------- specifications
\* Flask serves every POST on a thread of its own (app.run, line 475), so
\* the steps of two webhook calls interleave freely.  Spec is the whole
\* program; the specifications after it run the same actions on narrower
\* inputs (which updates arrive, on how many threads, what the engine
\* returns) so that each can be explored in full.
AllIdle == \A t \in Threads : pc[t] = "idle"

BridgeStep(t) == Wh414(t) \/ Wh415(t) \/ Wh416(t) \/ ThreadExit(t)

RateLimiterStep(t) ==
    Rl45(t) \/ Rl48(t) \/ Rl49(t) \/ Rl52(t) \/ Rl52w(t) \/ Rl58(t) \/ Rl61(t)

\* download_video up to the format buttons (the "ask" call of handle_message).
ProbeStep(t, videos) ==
    \/ Dv190(t) \/ Dv197(t, videos) \/ Dv203(t) \/ Dv311(t)
    \/ EditApply(t)

\* The format buttons of the "ask" call.
AskStep(t) == Dv205(t)

\* download_video past the format choice.
FetchStep(t, sizes) ==
    \/ Dv209(t) \/ Dv255(t, sizes) \/ Dv258(t) \/ Dv268(t) \/ Dv276(t)
    \/ Dv279(t) \/ Dv306(t) \/ Dv309(t) \/ Dv314(t)

AllUpdates ==
    TextUpdates(Users, Texts)
    \cup CallbackUpdates(Users, {TextWatch, TextShort}, Formats)
    \cup CommandUpdates(Users)

Next ==
    \/ MainSetup \/ MainRun \/ ImportServe
    \/ Tick(MaxTime)
    \/ \E t \in Threads : \E u \in AllUpdates : WebhookEnter(t, u, MaxUpdates)
    \/ \E t \in Threads :
          \/ BridgeStep(t) \/ Command(t) \/ Hm324(t) \/ Fs132(t)
          \/ RateLimiterStep(t) \/ Dv186(t)
          \/ ProbeStep(t, Videos) \/ AskStep(t) \/ Dv205Raise(t)
          \/ FetchStep(t, Sizes)

Spec == Init /\ [][Next]_vars

\* SpecSeq: the whole program, one request at a time, one requester.
SeqUpdates ==
    TextUpdates({1}, {TextWatch, TextPlain})
    \cup CallbackUpdates({1}, {TextWatch}, {"audio"})
    \cup CommandUpdates({1})

SeqVideos == {v \in Videos : v.id = <<"x">>}

NextSeq ==
    \/ MainSetup \/ MainRun
    \/ AllIdle /\ Tick(MaxTime)
    \/ \E u \in SeqUpdates : AllIdle /\ WebhookEnter("t1", u, MaxSeqUpdates)
    \/ BridgeStep("t1") \/ Command("t1") \/ Hm324("t1") \/ Fs132("t1")
    \/ RateLimiterStep("t1") \/ Dv186("t1")
    \/ ProbeStep("t1", SeqVideos) \/ AskStep("t1") \/ FetchStep("t1", {1})

SpecSeq == Init /\ [][NextSeq]_vars

\* SpecWindow: one requester sending URLs one after another; every URL goes
\* through handle_message into download_video and is_rate_limited.
NextWindow ==
    \/ MainSetup \/ MainRun
    \/ AllIdle /\ Tick(MaxTime)
    \/ \E u \in TextUpdates({1}, {TextShort}) :
          AllIdle /\ WebhookEnter("t1", u, MaxWindowCalls)
    \/ BridgeStep("t1") \/ Hm324("t1")
    \/ RateLimiterStep("t1") \/ Dv186("t1")
    \/ ProbeStep("t1", SeqVideos) \/ AskStep("t1")

SpecWindow == Init /\ [][NextWindow]_vars

\* SpecLimiter: URLs arriving on concurrent webhook threads.
NextLimiter ==
    \/ MainSetup \/ MainRun
    \/ Tick(MaxRaceTime)
    \/ \E t \in Threads : \E u \in TextUpdates({1}, {TextShort}) :
          WebhookEnter(t, u, MaxUpdates)
    \/ \E t \in Threads :
          \/ BridgeStep(t) \/ Hm324(t)
          \/ RateLimiterStep(t) \/ Dv186(t)
          \/ ProbeStep(t, SeqVideos) \/ AskStep(t)

SpecLimiter == Init /\ [][NextLimiter]_vars

\* SpecDownload: format choices arriving on concurrent webhook threads, each
\* running download_video to its end.
NextDownload ==
    \/ MainSetup \/ MainRun
    \/ \E t \in Threads :
          \E u \in CallbackUpdates({1}, {TextWatch}, {"720", "audio"}) :
              WebhookEnter(t, u, MaxDownloads)
    \/ \E t \in Threads :
          \/ BridgeStep(t) \/ Fs132(t)
          \/ RateLimiterStep(t)
          \/ ProbeStep(t, Videos) \/ FetchStep(t, {1})

SpecDownload == Init /\ [][NextDownload]_vars

\* SpecDeliver: format choices one after another, every format, every size.
NextDeliver ==
    \/ MainSetup \/ MainRun
    \/ \E u \in CallbackUpdates({1}, {TextWatch}, Formats) :
          AllIdle /\ WebhookEnter("t1", u, MaxDeliveries)
    \/ BridgeStep("t1") \/ Fs132("t1")
    \/ RateLimiterStep("t1")
    \/ ProbeStep("t1", SeqVideos) \/ FetchStep("t1", Sizes)

SpecDeliver == Init /\ [][NextDeliver]_vars

\* SpecBridge: the webhook boundary, served after main's setup or by a WSGI
\* host that imported the module, with messages on concurrent threads.  The
\* clock advances between requests and while an external call is running;
\* the steps of the program itself take no time.
NextBridge ==
    \/ MainSetup \/ MainRun \/ ImportServe
    \/ (AllIdle \/ \E t \in Threads : Suspended(t)) /\ Tick(MaxRaceTime)
    \/ \E t \in Threads :
          \E u \in TextUpdates({1}, {TextShort, TextPlain}) \cup CommandUpdates({1}) :
              WebhookEnter(t, u, MaxBridgeCalls)
    \/ \E t \in Threads :
          \/ BridgeStep(t) \/ Command(t) \/ Hm324(t)
          \/ RateLimiterStep(t)
          \/ ProbeStep(t, SeqVideos) \/ AskStep(t)

SpecBridge == Init /\ [][NextBridge]_vars

\* SpecFrame: two requesters sending URLs one after another.
NextFrame ==
    \/ MainSetup \/ MainRun
    \/ AllIdle /\ Tick(MaxTime)
    \/ \E u \in TextUpdates(Users, {TextShort}) :
          AllIdle /\ WebhookEnter("t1", u, MaxFrameCalls)
    \/ BridgeStep("t1") \/ Hm324("t1")
    \/ RateLimiterStep("t1") \/ Dv186("t1")
    \/ ProbeStep("t1", SeqVideos) \/ AskStep("t1")

SpecFrame == Init /\ [][NextFrame]_vars

\* SpecGate: one requester sending plain text, URLs and format choices one
\* after another, within one minute.
GateUpdates ==
    TextUpdates({1}, {TextShort, TextPlain})
    \cup CallbackUpdates({1}, {TextWatch}, {"audio"})

NextGate ==
    \/ MainSetup \/ MainRun
    \/ \E u \in GateUpdates : AllIdle /\ WebhookEnter("t1", u, MaxGateCalls)
    \/ BridgeStep("t1") \/ Hm324("t1") \/ Fs132("t1")
    \/ RateLimiterStep("t1") \/ Dv186("t1")
    \/ ProbeStep("t1", SeqVideos) \/ AskStep("t1") \/ FetchStep("t1", {1})

SpecGate == Init /\ [][NextGate]_vars

\* SpecProgress: one requester sending a URL or pressing a format button,
\* one call after another; the engine reports progress while it downloads,
\* the clock runs during the download, and show_format_options may raise.
ProgressUpdates ==
    TextUpdates({1}, {TextShort}) \cup CallbackUpdates({1}, {TextWatch}, {"720"})

NextProgress ==
    \/ MainSetup \/ MainRun
    \/ Downloading("t1")
          /\ \E d \in HookTickSteps :
                /\ now + d <= MaxProgressTime
                /\ now' = now + d
                /\ UNCHANGED <<bot_app, serving, loops, user_requests, disk, pc,
                               loc, nreq, hist, calls>>
    \/ \E u \in ProgressUpdates :
          AllIdle /\ WebhookEnter("t1", u, MaxProgressCalls)
    \/ BridgeStep("t1") \/ Hm324("t1") \/ Fs132("t1")
    \/ RateLimiterStep("t1")
    \/ ProbeStep("t1", SeqVideos) \/ AskStep("t1") \/ Dv205Raise("t1")
    \/ FetchStep("t1", {1})
    \/ progress_hook("t1", {"downloading", "finished"}, MaxHooks)
    \/ update_status("t1")

SpecProgress == Init /\ [][NextProgress]_vars

\* SpecStall: SpecDeliver with fairness.  Every step the program takes by
\* itself is taken eventually, and the platform answers every edit and every
\* send; the engine's probe (line 197) and the engine's download (line 255)
\* are calls into the engine, and nothing in the code makes them return: no
\* timeout is passed in the options of lines 194 and 217-251, and the calls
\* are not wrapped in one.
OwnStep(t) ==
    \/ BridgeStep(t) \/ Fs132(t) \/ RateLimiterStep(t)
    \/ Dv190(t) \/ Dv203(t) \/ Dv311(t) \/ EditApply(t)
    \/ Dv209(t) \/ Dv258(t) \/ Dv268(t) \/ Dv276(t) \/ Dv279(t) \/ Dv306(t)
    \/ Dv309(t) \/ Dv314(t)

SpecStall == Init /\ [][NextDeliver]_vars /\ WF_vars(OwnStep("t1"))

\* ------------------------------------------------------------------ claims
Admitted(i) == ~calls[i].limited
SameWindow(i, j) == calls[j].at - calls[i].at < 60

\* C1: for one requester and sequential calls, starting from an empty
\* window: each of the first three calls made within 60 seconds of the first
\* is admitted; a fourth call within those 60 seconds is rejected; and a call
\* made when every recorded (admitted) timestamp is at least 60 seconds old
\* is admitted again.
C1_QuotaThenWindow ==
    /\ \A i \in 1..Len(calls) :
          (i <= 3 /\ SameWindow(1, i)) => Admitted(i)
    /\ (Len(calls) >= 4 /\ SameWindow(1, 4)) => ~Admitted(4)
    /\ \A i \in 1..Len(calls) :
          (\A j \in 1..(i - 1) : Admitted(j) => ~SameWindow(j, i)) => Admitted(i)

\* Three calls admitted and a fourth rejected in one window, then a call
\* admitted once the window has elapsed.
C1_Witness ==
    /\ Len(calls) = 5
    /\ SameWindow(1, 4) /\ Admitted(3) /\ ~Admitted(4)
    /\ ~SameWindow(3, 5) /\ Admitted(5)

AdmittedAt(k, v) ==
    {i \in 1..Len(calls) : calls[i].key = k /\ Admitted(i) /\ calls[i].at = v}

\* C2: under any interleaving of is_rate_limited calls on different webhook
\* threads, a timestamp that has not aged out is stored for its requester
\* exactly as often as calls were admitted at it: no admitted call is lost
\* and none is counted twice.
C2_NoLostNoDouble ==
    \A i \in 1..Len(calls) :
        (Admitted(i) /\ now - calls[i].at < 60) =>
            Count(user_requests[calls[i].key], calls[i].at)
                = Cardinality(AdmittedAt(calls[i].key, calls[i].at))

\* The calls so far are URL submission, format selection, URL submission, ...
SubmitThenSelect ==
    \A i \in 1..Len(calls) :
        IF i % 2 = 1 THEN calls[i].format_choice = "ask"
                     ELSE calls[i].format_choice # "ask"

\* C10: three downloads per minute: when a requester, starting from an
\* empty window, takes URLs one after another (submission, then format
\* selection), none of the six steps of the first three URLs made within 60
\* seconds is rate-limited.
C10_ThreeDownloadsPerMinute ==
    SubmitThenSelect =>
        \A i \in 1..Len(calls) : (i <= 6 /\ SameWindow(1, i)) => Admitted(i)

EndsWith(s, suffix) ==
    Len(suffix) <= Len(s) /\ SubSeq(s, Len(s) - Len(suffix) + 1, Len(s)) = suffix

\* C3: once a request of download_video has its terminal outcome, no file
\* that this request wrote is left in the download directory.
C3_NoScratchLeft ==
    \A t \in Threads :
        hist[t].outcome # "-" => \A f \in disk : Req(t) \notin f.by

C5_TooLongFailsFast ==
    \A t \in Threads :
        hist[t].duration > 3600 =>
            /\ hist[t].downloads = 0
            /\ hist[t].wrote = {}
            /\ hist[t].outcome \in {"-", "TooLong"}

\* C6: two requests in flight never use the same scratch directory, never
\* write the same file path, and neither finds the other's file when it
\* lists its candidates.
C6_ScratchExclusive ==
    \A t \in Threads : \A o \in Threads \ {t} :
        (Active(t) /\ Active(o)) =>
            /\ (hist[t].dir # "-" /\ hist[o].dir # "-") => hist[t].dir # hist[o].dir
            /\ hist[t].wrote \cap hist[o].wrote = {}
            /\ loc[t].downloaded_files \cap hist[o].wrote = {}

\* C7: a webhook call whose request is still in its probe, download or
\* upload, and which has not answered yet, is never older than the
\* acknowledgment timeout of 10 seconds: the response goes out within the
\* bound while the request carries on in the background.
C7_BoundedAck ==
    \A t \in Threads :
        (Suspended(t) /\ hist[t].status = 0) =>
            now - hist[t].started <= 10

\* C8: every webhook call runs its update on the event loop created at
\* start-up, and no webhook call creates an event loop of its own.
C8_OneWorkerLoop ==
    /\ \A t \in Threads : hist[t].loop # 0 => hist[t].loop = StartupLoop
    /\ Len(loops) <= 1

\* C9: a webhook call made while bot_app is None is answered 503; any other
\* call whose processing raises nothing is answered 200.
C9_StatusCodes ==
    \A t \in Threads :
        pc[t] = "done" =>
            hist[t].status = IF hist[t].appNone THEN 503 ELSE 200

\* The stored timestamps of requester k that lie in the trailing 60 seconds.
InWindow(k) ==
    IF HasKey(k) THEN SelectSeq(user_requests[k], LAMBDA x : now - x < 60)
    ELSE <<>>

\* C12: in every reachable state, under any sequence and interleaving of
\* is_rate_limited calls, a requester has at most 3 stored timestamps inside
\* the trailing 60-second window.
C12_WindowWithinQuota ==
    \A u \in Users : Len(InWindow(UserKey(u))) <= 3

\* Thread t is inside is_rate_limited (lines 45-59).
InLimiter(t) == pc[t] \in {"rl45", "rl48", "rl49", "rl52", "rl52w", "rl58"}

WindowAfter(k) ==
    IF k \in DOMAIN user_requests'
    THEN SelectSeq(user_requests'[k], LAMBDA x : now' - x < 60)
    ELSE <<>>

\* C17: a rejected is_rate_limited call records nothing: while a call runs
\* for a requester whose window already holds 3 or more timestamps, no step
\* of the call changes that requester's in-window timestamps or any other
\* requester's stored list, and the call returns rate-limited.
C17_RejectedRecordsNothing ==
    [][\A t \in Threads :
          (InLimiter(t) /\ pc'[t] # pc[t] /\ Len(InWindow(Key(t))) >= 3) =>
              /\ WindowAfter(Key(t)) = InWindow(Key(t))
              /\ \A u \in Users :
                    UserKey(u) # Key(t) =>
                        /\ HasKey(UserKey(u)) = (UserKey(u) \in DOMAIN user_requests')
                        /\ HasKey(UserKey(u)) =>
                              user_requests'[UserKey(u)] = user_requests[UserKey(u)]
              /\ pc[t] = "rl58" => pc'[t] = "dv186"]_vars

\* A call of requester 1 has just been rejected with three timestamps in
\* the window, while requester 2 has a timestamp stored as well.
C17_Witness ==
    \E t \in Threads :
        /\ pc[t] = "dv186" /\ Key(t) = "1"
        /\ Len(InWindow("1")) = 3
        /\ Len(InWindow("2")) >= 1

\* The text names neither of the two hosts, so it is not a supported URL.
OffHost(text) == text.host \notin {"youtube.com", "youtu.be"}

C13_ProgressThrottled ==
    \A t \in Threads :
        \A i \in 1..Len(hist[t].emitted) : \A j \in 1..Len(hist[t].emitted) :
            i < j => hist[t].emitted[j] - hist[t].emitted[i] >= 5

\* C11: the status-message edits of one request are issued one at a time
\* and in order: at most one edit_text call of the request is on the wire at
\* any moment, and the edits are applied in the order they were issued.
C11_EditsOneAtATime ==
    \A t \in Threads :
        /\ Cardinality(loc[t].flight) <= 1
        /\ \A i \in 1..Len(hist[t].applied) : \A j \in 1..Len(hist[t].applied) :
              i < j => hist[t].applied[i] < hist[t].applied[j]

\* C20: once the status message of a request has been deleted, no edit is
\* issued to it any more.
C20_NoEditAfterDelete ==
    \A t \in Threads :
        \A i \in 1..Len(hist[t].edits) : ~hist[t].edits[i].gone

\* The candidates of a request, partial-download markers left out.
Candidates(t) ==
    {n \in loc[t].downloaded_files : ~EndsWith(n, <<".", "p", "a", "r", "t">>)}

\* C14: after the download step exactly one produced artifact is located: a
\* request goes on past the listing of its candidates (partial-download
\* markers excluded), and delivers, only when there is exactly one; with none
\* or more than one it ends in ArtifactNotFound and nothing is delivered.
C14_ExactlyOneArtifact ==
    \A t \in Threads :
        /\ pc[t] \in {"dv268", "dv276", "dv279", "dv306", "dv309"} =>
              Cardinality(Candidates(t)) = 1
        /\ hist[t].outcome = "ArtifactNotFound" => hist[t].channel = "-"

\* C19: the file selected at the "find the downloaded file" step, which the
\* request then delivers and deletes, is a file that the download step of
\* this very request wrote.
C19_SelectsOwnFile ==
    \A t \in Threads :
        pc[t] \in {"dv276", "dv279", "dv306", "dv309"} =>
            loc[t].filepath \in hist[t].wrote

\* C15: every admitted request eventually reaches a terminal outcome, even
\* when the probe, the download or the upload stalls: a timeout turns the
\* stalled call into a failure of the request.
C15_StalledCallEnds ==
    \A t \in Threads : (hist[t].limited = "no") ~> (hist[t].outcome # "-")

\* The final outcomes of a request that reach the requester: the file, and
\* every failure text the handler wrote to a status message that exists.
FailureTexts ==
    {"Download failed", "Download failed, too long or unavailable", "Error"}
FailureReports(t) ==
    {i \in 1..Len(hist[t].edits) :
        /\ hist[t].edits[i].by = "main"
        /\ hist[t].edits[i].text \in FailureTexts
        /\ ~hist[t].edits[i].gone}
FinalOutcomes(t) ==
    Cardinality(FailureReports(t)) + (IF hist[t].channel # "-" THEN 1 ELSE 0)

\* C16: one call of download_video invokes the engine's probe at most once
\* and the engine's download at most once (no retry), and a call that the
\* rate limiter admitted, other than one that ends with the format buttons
\* shown, produces exactly one final outcome: the delivery or one failure
\* report.
C16_OneTerminalOutcome ==
    \A t \in Threads :
        /\ hist[t].probes <= 1 /\ hist[t].downloads <= 1
        /\ (pc[t] = "done" /\ hist[t].limited = "no"
              /\ hist[t].outcome # "Asked") => FinalOutcomes(t) = 1

====
